---- MODULE Spec2Model ----
(***************************************************************************)
(* A model of the parameter sweep of src/simulation_runner.py              *)
(* (SimulationRunner, CoverageManager) of the TransienteMKM repository.    *)
(*                                                                         *)
(* Coverages are fixed-point numbers: the integer n stands for n/Scale,    *)
(* so Scale is 1.0.  EPS is the tolerance of _sanitize_value on that grid  *)
(* (the grid point 1 lies strictly between 0 and EPS).  Potentials are     *)
(* integers in tenths of a volt (-4 is -0.4 V).                            *)
(*                                                                         *)
(* An Optional[...] of the source is a sequence of length <= 1: None is    *)
(* <<>> and a value x is <<x>>.  A dict is a function; its keys are its    *)
(* DOMAIN.                                                                 *)
(***************************************************************************)
EXTENDS Integers, Sequences, FiniteSets, TLC

\* ------------------------------------------------------------ bounds
\* grid points per unit coverage
Scale == 4
\* longest list of activities given to the coverage helpers on their own
MaxActs == 3

\* ------------------------------------------------- program constants
EPS == 2
MAX_COVERAGE == Scale

\* ------------------------------------------------------ small helpers
None == <<>>
Some(x) == <<x>>
IsNone(o) == Len(o) = 0
Get(o) == o[1]
EmptyDict == [k \in {} |-> 0]

Abs(v) == IF v < 0 THEN -v ELSE v
Max0(a) == IF a < 0 THEN 0 ELSE a

RECURSIVE Sum(_)
Sum(s) == IF Len(s) = 0 THEN 0 ELSE s[Len(s)] + Sum(SubSeq(s, 1, Len(s) - 1))

\* ----------------------------------------------------- sweep inputs
\* data['adsorbates'] of the record returned by the data extractor
Adsorbates == <<"A", "B">>
FreeSite == "*"

\* data['activity'] as returned by the (user-supplied) data extractor:
\* data_extract returns zeros; another extractor may return anything.
ExtractedActivities == { <<0, 0>>, <<1, 3>>, <<3, 1>> }

\* config.pH_list x config.V_list grids the model is run on
Grids ==
  { [pH_list |-> <<7, 13>>, V_list |-> <<0, -2, -4>>],
    [pH_list |-> <<13, 7>>, V_list |-> <<2, -2>>],
    [pH_list |-> <<7>>,     V_list |-> <<-2, 2, 0>>],
    [pH_list |-> <<13>>,    V_list |-> <<0, -2, 0>>],
    [pH_list |-> <<7>>,     V_list |-> <<-4, 6, 0, -2>>] }

Configs ==
  { [pH_list |-> g.pH_list, V_list |-> g.V_list,
     enable_sweep_mode |-> s, use_coverage_propagation |-> p,
     enforce_site_balance |-> e, executable_path |-> x] :
       g \in Grids, s \in BOOLEAN, p \in BOOLEAN, e \in BOOLEAN, x \in BOOLEAN }

\* A token of coverage.dat: float(value) parses it (ok) or raises ValueError.
Num(n) == [ok |-> TRUE, val |-> n]
Bad == [ok |-> FALSE, val |-> 0]

\* What the solver leaves under run/range: no coverage.dat, a file of fewer
\* than two lines, or a header line and a last line of tokens.
NoFile == [found |-> FALSE, lines |-> 0, headers |-> <<>>, values |-> <<>>]
ShortFile == [found |-> TRUE, lines |-> 1, headers |-> <<"A">>, values |-> <<>>]
File(h, v) == [found |-> TRUE, lines |-> 2, headers |-> h, values |-> v]

CoverageFiles ==
  { NoFile, ShortFile,
    File(<<"A", "B", "*">>, <<Bad, Bad, Bad>>),
    File(<<"A", "B", "*">>, <<Num(-1), Num(1), Num(Scale + 1)>>),
    File(<<"A", "B", "*">>, <<Num(Scale), Num(Scale), Num(0)>>),
    File(<<"A", "B">>, <<Num(EPS), Num(1), Num(7)>>),
    File(<<"A", "*", "B">>, <<Num(3), Num(1)>>) }

\* ------------------------------------------------- coverage handling

\* mutant of _sanitize_value: the upper clamp is forgotten
_sanitize_value_no_cap(x) == IF x < EPS THEN 0 ELSE x

\* SimulationRunner._sanitize_value
_sanitize_value(x) ==
  IF x < EPS THEN 0
  ELSE IF x > MAX_COVERAGE THEN MAX_COVERAGE
  ELSE x

\* SimulationRunner._sanitize_mapping
_sanitize_mapping(cov) == [k \in DOMAIN cov |-> _sanitize_value(cov[k])]

\* mutant of _renormalize_free_site: the balance is taken from the raw values
_renormalize_free_site_raw(activities) ==
  [activity |-> [i \in 1..Len(activities) |-> _sanitize_value(activities[i])],
   free |-> _sanitize_value(Max0(Scale - Sum(activities)))]

\* SimulationRunner._renormalize_free_site: (act_list, theta_free)
_renormalize_free_site(activities) ==
  LET act_list == [i \in 1..Len(activities) |-> _sanitize_value(activities[i])]
      total_ads == Sum(act_list)
      theta_free == _sanitize_value(Max0(Scale - total_ads))
  IN  [activity |-> act_list, free |-> theta_free]

\* dict.get(key, default)
DictGet(d, k, default) == IF k \in DOMAIN d THEN d[k] ELSE default

\* mutant of _apply_initial_coverage: an adsorbate that is absent from the
\* snapshot is seeded with zero instead of its extracted activity
_apply_initial_coverage_absent_zero(activity, prev_coverage) ==
  [i \in 1..Len(Adsorbates) |->
     _sanitize_value(DictGet(prev_coverage, Adsorbates[i], 0))]

\* SimulationRunner._apply_initial_coverage: the new data['activity']
_apply_initial_coverage(activity, prev_coverage) ==
  [i \in 1..Len(Adsorbates) |->
     _sanitize_value(DictGet(prev_coverage, Adsorbates[i], activity[i]))]

\* SimulationRunner._extract_final_coverage: None or the dict of the last row
RECURSIVE ZipToDict(_, _, _)
ZipToDict(headers, values, n) ==
  IF n = 0 THEN EmptyDict
  ELSE LET rest == ZipToDict(headers, values, n - 1)
       IN  IF values[n].ok
           THEN (headers[n] :> values[n].val) @@ rest
           ELSE rest

_extract_final_coverage(file) ==
  IF ~file.found THEN None
  ELSE IF file.lines < 2 THEN None
  ELSE LET n == IF Len(file.headers) < Len(file.values)
                THEN Len(file.headers) ELSE Len(file.values)
       IN  Some(ZipToDict(file.headers, file.values, n))

\* mutant of sorted_by_abs: an unstable sort, equal keys come out reversed
RECURSIVE sorted_by_abs_unstable(_)
sorted_by_abs_unstable(s) ==
  IF Len(s) = 0 THEN <<>>
  ELSE LET r == sorted_by_abs_unstable(SubSeq(s, 1, Len(s) - 1))
           x == s[Len(s)]
           k == Cardinality({i \in 1..Len(r) : Abs(r[i]) < Abs(x)})
       IN  SubSeq(r, 1, k) \o <<x>> \o SubSeq(r, k + 1, Len(r))

\* sorted(V_list, key=abs): Python's sort is stable
RECURSIVE sorted_by_abs(_)
sorted_by_abs(s) ==
  IF Len(s) = 0 THEN <<>>
  ELSE LET r == sorted_by_abs(SubSeq(s, 1, Len(s) - 1))
           x == s[Len(s)]
           k == Cardinality({i \in 1..Len(r) : Abs(r[i]) <= Abs(x)})
       IN  SubSeq(r, 1, k) \o <<x>> \o SubSeq(r, k + 1, Len(r))

\* mutant of V_steps_of: the list is never ordered
V_steps_of_unsorted(cfg) == cfg.V_list

\* run_parameter_sweep, lines 296-299: the V steps of one pH
V_steps_of(cfg) ==
  IF cfg.enable_sweep_mode THEN sorted_by_abs(cfg.V_list) ELSE cfg.V_list

\* ------------------------------------------------------------- state
VARIABLES
  config,            \* self.config (with ENFORCE_SITE_BALANCE), fixed by __init__
  coverage_data,     \* CoverageManager.coverage_data, keyed by <<pH, V>>
  pc,                \* position in run_parameter_sweep
  phIdx,             \* index of the current pH in config.pH_list
  idx,               \* index of the current V in V_steps
  V_steps,           \* the ordered V steps of the current pH
  previous_coverage, \* the local previous_coverage: None or a dict
  data,              \* the cell's data record: None or [activity, free_site_coverage]
  cwd,               \* the process working directory: "base" or <<pH, V>>
  handed,            \* what generate_input_file was given in this cell, or None
  seedBranch,        \* the seed branch the cell took
  outcome,           \* how the current cell is going
  lastOutcome,       \* how the previous cell of this pH ended
  covAtStart,        \* coverage_data when the current cell started
  visited,           \* the cells entered so far, in order
  exported,          \* number of calls of export_coverage_trajectory
  probe,             \* a call of a helper on its own: its input, progress and result
  final_cov          \* the local final_cov of the cell: None or the parsed dict

vars == << config, coverage_data, pc, phIdx, idx, V_steps, previous_coverage,
           data, cwd, handed, seedBranch, outcome, lastOutcome, covAtStart,
           visited, exported, probe, final_cov >>

pH == config.pH_list[phIdx]
V == V_steps[idx]

\* CoverageManager.save_coverage
save_coverage(p, v, coverage_dict) == (<<p, v>> :> coverage_dict) @@ coverage_data

\* CoverageManager.get_coverage
get_coverage(p, v) ==
  IF <<p, v>> \in DOMAIN coverage_data THEN Some(coverage_data[<<p, v>>]) ELSE None

\* mutant of get_previous_coverage: the position is looked up in V_list as
\* given, not in the list ordered by |V|
get_previous_coverage_unsorted(p, V_current, V_list) ==
  LET V_sorted == V_list
      found    == {i \in 1..Len(V_sorted) : V_sorted[i] = V_current}
  IN  IF found = {} THEN None
      ELSE LET current_idx == CHOOSE i \in found : \A j \in found : i <= j
           IN  IF current_idx > 1
               THEN get_coverage(p, V_sorted[current_idx - 1])
               ELSE None

\* CoverageManager.get_previous_coverage; list.index gives the first
\* position and raises ValueError (caught, None) when there is none
get_previous_coverage(p, V_current, V_list) ==
  LET V_sorted == sorted_by_abs(V_list)
      found    == {i \in 1..Len(V_sorted) : V_sorted[i] = V_current}
  IN  IF found = {} THEN None
      ELSE LET current_idx == CHOOSE i \in found : \A j \in found : i <= j
           IN  IF current_idx > 1
               THEN get_coverage(p, V_sorted[current_idx - 1])
               ELSE None

\* no helper has been called
NoCall == [fn |-> "none", xs |-> <<>>, out |-> 0, outs |-> <<>>]

Init ==
  /\ config \in Configs
  /\ coverage_data = EmptyDict
  /\ pc = "pH_loop"
  /\ phIdx = 1
  /\ idx = 1
  /\ V_steps = <<>>
  /\ previous_coverage = None
  /\ data = None
  /\ cwd = "base"
  /\ handed = None
  /\ seedBranch = "none"
  /\ outcome = "none"
  /\ lastOutcome = "none"
  /\ covAtStart = EmptyDict
  /\ visited = <<>>
  /\ exported = 0
  /\ final_cov = None
  /\ probe = NoCall

\* mutant of BeginPH: the carried snapshot is kept from the pH before
BeginPH_keeps_snapshot ==
  /\ pc = "pH_loop"
  /\ phIdx <= Len(config.pH_list)
  /\ V_steps' = V_steps_of(config)
  /\ idx' = 1
  /\ lastOutcome' = "none"
  /\ pc' = "V_loop"
  /\ UNCHANGED << config, coverage_data, phIdx, data, cwd, handed, seedBranch,
                  outcome, covAtStart, visited, exported, probe, final_cov,
                  previous_coverage >>

\* lines 286-301: the head of the pH loop (results_dir and pH_dir are created)
BeginPH ==
  /\ pc = "pH_loop"
  /\ phIdx <= Len(config.pH_list)
  /\ V_steps' = V_steps_of(config)
  /\ previous_coverage' = None
  /\ idx' = 1
  /\ lastOutcome' = "none"
  /\ pc' = "V_loop"
  /\ UNCHANGED << config, coverage_data, phIdx, data, cwd, handed, seedBranch,
                  outcome, covAtStart, visited, exported, probe, final_cov >>

\* lines 303-306: V_dir.mkdir and os.chdir(V_dir) succeed
EnterCell ==
  /\ pc = "V_loop"
  /\ idx <= Len(V_steps)
  /\ cwd' = <<pH, V>>
  /\ visited' = Append(visited, <<pH, V>>)
  /\ covAtStart' = coverage_data
  /\ outcome' = "running"
  /\ seedBranch' = "none"
  /\ pc' = "copy"
  /\ UNCHANGED << config, coverage_data, phIdx, idx, V_steps, previous_coverage,
                  data, handed, lastOutcome, exported, probe, final_cov >>

\* lines 304-306: V_dir.mkdir or os.chdir raises, outside the try statement
EnterCellFails ==
  /\ pc = "V_loop"
  /\ idx <= Len(V_steps)
  /\ pc' = "raised"
  /\ UNCHANGED << config, coverage_data, phIdx, idx, V_steps, previous_coverage,
                  data, cwd, handed, seedBranch, outcome, lastOutcome,
                  covAtStart, visited, exported, probe, final_cov >>

\* lines 303, 291: the V loop of this pH is exhausted
EndPH ==
  /\ pc = "V_loop"
  /\ idx > Len(V_steps)
  /\ phIdx' = phIdx + 1
  /\ pc' = "pH_loop"
  /\ UNCHANGED << config, coverage_data, idx, V_steps, previous_coverage, data,
                  cwd, handed, seedBranch, outcome, lastOutcome, covAtStart,
                  visited, exported, probe, final_cov >>

\* lines 309-317: copy the workbook and extract the data record
CopyAndExtract ==
  /\ pc = "copy"
  /\ \E a \in ExtractedActivities :
       data' = Some([activity |-> a, free_site_coverage |-> None])
  /\ pc' = "seed"
  /\ UNCHANGED << config, coverage_data, phIdx, idx, V_steps, previous_coverage,
                  cwd, handed, seedBranch, outcome, lastOutcome, covAtStart,
                  visited, exported, probe, final_cov >>

\* lines 309-317, 403-404: shutil.copyfile or data_extractor raises
CopyAndExtractFails ==
  /\ pc = "copy"
  /\ outcome' = "prepare_failed"
  /\ pc' = "finally"
  /\ UNCHANGED << config, coverage_data, phIdx, idx, V_steps, previous_coverage,
                  data, cwd, handed, seedBranch, lastOutcome, covAtStart,
                  visited, exported, probe, final_cov >>

\* mutant of SeedOf: a carried snapshot is used before V == 0 is looked at
SeedOf_propagation_first(d, prev, v) ==
  IF config.use_coverage_propagation /\ ~IsNone(prev) /\ DOMAIN Get(prev) # {}
  THEN [activity |-> _apply_initial_coverage(d.activity, Get(prev)),
        free_site_coverage |->
          IF FreeSite \in DOMAIN Get(prev)
          THEN _sanitize_value(Get(prev)[FreeSite]) ELSE Scale,
        branch |-> "propagated"]
  ELSE IF v = 0
  THEN [activity |-> [i \in 1..Len(Adsorbates) |-> 0],
        free_site_coverage |-> Scale, branch |-> "zero"]
  ELSE [activity |-> d.activity, free_site_coverage |-> Scale, branch |-> "noprev"]

\* lines 320-339: seed resolution: [activity, free_site_coverage, branch]
SeedOf(d, prev, v) ==
  IF v = 0
  THEN [activity |-> [i \in 1..Len(Adsorbates) |-> 0],
        free_site_coverage |-> Scale, branch |-> "zero"]
  ELSE IF config.use_coverage_propagation /\ ~IsNone(prev) /\ DOMAIN Get(prev) # {}
  THEN [activity |-> _apply_initial_coverage(d.activity, Get(prev)),
        free_site_coverage |->
          IF FreeSite \in DOMAIN Get(prev)
          THEN _sanitize_value(Get(prev)[FreeSite]) ELSE Scale,
        branch |-> "propagated"]
  ELSE [activity |-> d.activity, free_site_coverage |-> Scale, branch |-> "noprev"]

\* lines 341-353: site balance or plain sanitization of the seeded record
BalanceOf(s) ==
  IF config.enforce_site_balance
  THEN LET r == _renormalize_free_site(s.activity)
       IN  [activity |-> r.activity, free_site_coverage |-> r.free]
  ELSE [activity |-> [i \in 1..Len(s.activity) |-> _sanitize_value(s.activity[i])],
        free_site_coverage |-> _sanitize_value(s.free_site_coverage)]

\* lines 320-353
SeedCoverage ==
  /\ pc = "seed"
  /\ LET s == SeedOf(Get(data), previous_coverage, V)
     IN  /\ data' = Some(BalanceOf(s))
         /\ seedBranch' = s.branch
  /\ pc' = "generate"
  /\ UNCHANGED << config, coverage_data, phIdx, idx, V_steps, previous_coverage,
                  cwd, handed, outcome, lastOutcome, covAtStart, visited, exported, probe, final_cov >>

\* lines 355-375, 400-401: generate_input_file is handed the data record
GenerateInput ==
  /\ pc = "generate"
  /\ handed' = Some([V |-> V, activity |-> Get(data).activity,
                     free_site_coverage |-> Get(data).free_site_coverage])
  /\ IF config.executable_path
     THEN pc' = "solve" /\ UNCHANGED outcome
     ELSE pc' = "finally" /\ outcome' = "skipped"
  /\ UNCHANGED << config, coverage_data, phIdx, idx, V_steps, previous_coverage,
                  data, cwd, seedBranch, lastOutcome, covAtStart, visited, exported, probe, final_cov >>

\* lines 101-118, 403-404: generate_input_file raises (after being handed the data)
GenerateInputFails ==
  /\ pc = "generate"
  /\ handed' = Some([V |-> V, activity |-> Get(data).activity,
                     free_site_coverage |-> Get(data).free_site_coverage])
  /\ outcome' = "prepare_failed"
  /\ pc' = "finally"
  /\ UNCHANGED << config, coverage_data, phIdx, idx, V_steps, previous_coverage,
                  data, cwd, seedBranch, lastOutcome, covAtStart, visited, exported, probe, final_cov >>

\* lines 378-383: run_simulation returns (exit code 0)
SolverSucceeds ==
  /\ pc = "solve"
  /\ IF config.enable_sweep_mode
     THEN pc' = "extract" /\ UNCHANGED outcome
     ELSE pc' = "finally" /\ outcome' = "succeeded"
  /\ UNCHANGED << config, coverage_data, phIdx, idx, V_steps, previous_coverage,
                  data, cwd, handed, seedBranch, lastOutcome, covAtStart,
                  visited, exported, probe, final_cov >>

\* mutant of SolverFails: the except clause lets the error out of the sweep
SolverFails_reraised ==
  /\ pc = "solve"
  /\ outcome' = "solver_failed"
  /\ pc' = "raised"
  /\ UNCHANGED << config, coverage_data, phIdx, idx, V_steps, previous_coverage,
                  data, cwd, handed, seedBranch, lastOutcome, covAtStart,
                  visited, exported, probe, final_cov >>

\* lines 203-225, 403-404: run_simulation raises (missing executable, nonzero
\* exit code, invocation exception)
SolverFails ==
  /\ pc = "solve"
  /\ outcome' = "solver_failed"
  /\ pc' = "finally"
  /\ UNCHANGED << config, coverage_data, phIdx, idx, V_steps, previous_coverage,
                  data, cwd, handed, seedBranch, lastOutcome, covAtStart,
                  visited, exported, probe, final_cov >>

\* mutant of FinalCovOf: the parsed dict is stored as it was read
FinalCovOf_unsanitized(parsed) == parsed

\* lines 387-397: the snapshot that is stored, from the parsed dict
FinalCovOf(parsed) ==
  LET clean == _sanitize_mapping(parsed)
  IN  IF config.enforce_site_balance
      THEN LET ads_vals == [i \in 1..Len(Adsorbates) |->
                              DictGet(clean, Adsorbates[i], 0)]
               r == _renormalize_free_site(ads_vals)
           IN  [k \in DOMAIN clean \cup {Adsorbates[i] : i \in 1..Len(Adsorbates)}
                         \cup {FreeSite} |->
                  IF k = FreeSite THEN r.free
                  ELSE IF \E i \in 1..Len(Adsorbates) : Adsorbates[i] = k
                  THEN r.activity[CHOOSE i \in 1..Len(Adsorbates) : Adsorbates[i] = k]
                  ELSE clean[k]]
      ELSE clean

\* mutant of ExtractAndStore: the snapshot is stored but not carried forward
ExtractAndStore_not_carried ==
  /\ pc = "extract"
  /\ \E file \in CoverageFiles :
       /\ final_cov' = _extract_final_coverage(file)
       /\ IF ~IsNone(final_cov') /\ DOMAIN Get(final_cov') # {}
          THEN coverage_data' = save_coverage(pH, V, FinalCovOf(Get(final_cov')))
          ELSE UNCHANGED coverage_data
  /\ outcome' = "succeeded"
  /\ pc' = "finally"
  /\ UNCHANGED << config, phIdx, idx, V_steps, previous_coverage, data, cwd, handed,
                  seedBranch, lastOutcome, covAtStart, visited, exported, probe >>

\* mutant of ExtractAndStore: a mapping without any value is stored as well
ExtractAndStore_stores_empty ==
  /\ pc = "extract"
  /\ \E file \in CoverageFiles :
       /\ final_cov' = _extract_final_coverage(file)
       /\ IF ~IsNone(final_cov')
          THEN /\ coverage_data' = save_coverage(pH, V, FinalCovOf(Get(final_cov')))
               /\ previous_coverage' = Some(FinalCovOf(Get(final_cov')))
          ELSE UNCHANGED << coverage_data, previous_coverage >>
  /\ outcome' = "succeeded"
  /\ pc' = "finally"
  /\ UNCHANGED << config, phIdx, idx, V_steps, data, cwd, handed, seedBranch,
                  lastOutcome, covAtStart, visited, exported, probe >>

\* lines 383-399: parse the coverage file, store and carry the snapshot
ExtractAndStore ==
  /\ pc = "extract"
  /\ \E file \in CoverageFiles :
       /\ final_cov' = _extract_final_coverage(file)
       /\ IF ~IsNone(final_cov') /\ DOMAIN Get(final_cov') # {}
          THEN /\ coverage_data' = save_coverage(pH, V, FinalCovOf(Get(final_cov')))
               /\ previous_coverage' = Some(FinalCovOf(Get(final_cov')))
          ELSE UNCHANGED << coverage_data, previous_coverage >>
  /\ outcome' = "succeeded"
  /\ pc' = "finally"
  /\ UNCHANGED << config, phIdx, idx, V_steps, data, cwd, handed, seedBranch,
                  lastOutcome, covAtStart, visited, exported, probe >>

\* mutant of Finally: the working directory is not restored
Finally_no_chdir ==
  /\ pc = "finally"
  /\ lastOutcome' = outcome
  /\ outcome' = "none"
  /\ data' = None
  /\ handed' = None
  /\ final_cov' = None
  /\ seedBranch' = "none"
  /\ idx' = idx + 1
  /\ pc' = "V_loop"
  /\ UNCHANGED << config, coverage_data, phIdx, V_steps, previous_coverage, cwd,
                  covAtStart, visited, exported, probe >>

\* lines 405-406, 303: the finally clause, then the next V step
Finally ==
  /\ pc = "finally"
  /\ cwd' = "base"
  /\ lastOutcome' = outcome
  /\ outcome' = "none"
  /\ data' = None
  /\ handed' = None
  /\ final_cov' = None
  /\ seedBranch' = "none"
  /\ idx' = idx + 1
  /\ pc' = "V_loop"
  /\ UNCHANGED << config, coverage_data, phIdx, V_steps, previous_coverage,
                  covAtStart, visited, exported, probe >>

\* lines 408-411, 83-90: after the loops
ExportAndReturn ==
  /\ pc = "pH_loop"
  /\ phIdx > Len(config.pH_list)
  /\ exported' = IF config.enable_sweep_mode THEN exported + 1 ELSE exported
  /\ pc' = "returned"
  /\ UNCHANGED << config, coverage_data, phIdx, idx, V_steps, previous_coverage,
                  data, cwd, handed, seedBranch, outcome, lastOutcome,
                  covAtStart, visited, probe, final_cov >>

Next ==
  \/ BeginPH
  \/ EnterCell
  \/ EnterCellFails
  \/ EndPH
  \/ CopyAndExtract
  \/ CopyAndExtractFails
  \/ SeedCoverage
  \/ GenerateInput
  \/ GenerateInputFails
  \/ SolverSucceeds
  \/ SolverFails
  \/ ExtractAndStore
  \/ Finally
  \/ ExportAndReturn

Spec == Init /\ [][Next]_vars

\* ------------------------------------------- the coverage helpers alone
\* Raw values a helper may be given: negative noise, values below EPS,
\* values up to MAX_COVERAGE and values above it.
RawValues == (-2)..(Scale + 2)

RECURSIVE SeqsUpTo(_)
SeqsUpTo(n) ==
  IF n = 0 THEN { <<>> }
  ELSE LET shorter == SeqsUpTo(n - 1)
       IN  shorter \cup { Append(s, x) : s \in { t \in shorter : Len(t) = n - 1 },
                                         x \in RawValues }

ActivityLists == SeqsUpTo(MaxActs) \ { <<>> }

sweepVars == << config, coverage_data, pc, phIdx, idx, V_steps, previous_coverage,
                data, cwd, handed, seedBranch, outcome, lastOutcome, covAtStart,
                visited, exported, final_cov >>

\* The runner is constructed (default EPS, MAX_COVERAGE) and no sweep runs;
\* the list of raw values is the input of the calls.
InitCoverage ==
  /\ config = [pH_list |-> <<>>, V_list |-> <<>>, enable_sweep_mode |-> FALSE,
               use_coverage_propagation |-> FALSE, enforce_site_balance |-> TRUE,
               executable_path |-> FALSE]
  /\ coverage_data = EmptyDict
  /\ pc = "idle"
  /\ phIdx = 1
  /\ idx = 1
  /\ V_steps = <<>>
  /\ previous_coverage = None
  /\ data = None
  /\ cwd = "base"
  /\ handed = None
  /\ seedBranch = "none"
  /\ outcome = "none"
  /\ lastOutcome = "none"
  /\ covAtStart = EmptyDict
  /\ visited = <<>>
  /\ exported = 0
  /\ final_cov = None
  /\ \E xs \in ActivityLists : probe = [fn |-> "input", xs |-> xs, out |-> 0, outs |-> <<>>]

\* a call _sanitize_value(x), x the first value of the list
CallSanitizeValue ==
  /\ probe.fn = "input"
  /\ Len(probe.xs) = 1
  /\ probe' = [probe EXCEPT !.fn = "_sanitize_value",
                            !.out = _sanitize_value(probe.xs[1])]
  /\ UNCHANGED sweepVars

\* a call _renormalize_free_site(adsorbates, xs)
CallRenormalizeFreeSite ==
  /\ probe.fn = "input"
  /\ LET r == _renormalize_free_site(probe.xs)
     IN  probe' = [probe EXCEPT !.fn = "_renormalize_free_site",
                                !.outs = r.activity, !.out = r.free]
  /\ UNCHANGED sweepVars

NextCoverage ==
  \/ CallSanitizeValue
  \/ CallRenormalizeFreeSite

SpecCoverage == InitCoverage /\ [][NextCoverage]_vars

\* ------------------------------------------- the coverage manager alone
\* length of the V_list a call of get_previous_coverage is given
MaxVs == 3

ManagerPHs == {7, 13}
ManagerVs == {0, -2, 2}
\* a V_current that no list holds
OtherV == -4
ManagerSnapshots == { ("A" :> 0) @@ ("*" :> Scale), ("A" :> 3) @@ ("*" :> 1) }

RECURSIVE VListsUpTo(_)
VListsUpTo(n) ==
  IF n = 0 THEN { <<>> }
  ELSE LET shorter == VListsUpTo(n - 1)
       IN  shorter \cup { Append(s, x) : s \in { t \in shorter : Len(t) = n - 1 },
                                         x \in ManagerVs }

runnerVars == << config, pc, phIdx, idx, V_steps, previous_coverage, data, cwd,
                 handed, seedBranch, outcome, lastOutcome, covAtStart, visited,
                 exported, final_cov >>

\* A CoverageManager is constructed (lines 52-55): nothing is stored.
InitManager ==
  /\ config = [pH_list |-> <<>>, V_list |-> <<>>, enable_sweep_mode |-> FALSE,
               use_coverage_propagation |-> FALSE, enforce_site_balance |-> TRUE,
               executable_path |-> FALSE]
  /\ coverage_data = EmptyDict
  /\ pc = "idle"
  /\ phIdx = 1
  /\ idx = 1
  /\ V_steps = <<>>
  /\ previous_coverage = None
  /\ data = None
  /\ cwd = "base"
  /\ handed = None
  /\ seedBranch = "none"
  /\ outcome = "none"
  /\ lastOutcome = "none"
  /\ covAtStart = EmptyDict
  /\ visited = <<>>
  /\ exported = 0
  /\ final_cov = None
  /\ probe = NoCall

\* a call save_coverage(pH, V, coverage_dict)
CallSaveCoverage ==
  /\ probe = NoCall
  /\ \E p \in ManagerPHs, v \in ManagerVs, c \in ManagerSnapshots :
       coverage_data' = save_coverage(p, v, c)
  /\ UNCHANGED << runnerVars, probe >>

\* a call get_previous_coverage(pH, V_current, V_list)
CallGetPreviousCoverage ==
  /\ probe = NoCall
  /\ \E p \in ManagerPHs, v \in ManagerVs \cup {OtherV}, l \in VListsUpTo(MaxVs) :
       probe' = [fn |-> "get_previous_coverage", pH |-> p, V_current |-> v,
                 V_list |-> l, result |-> get_previous_coverage(p, v, l)]
  /\ UNCHANGED << runnerVars, coverage_data >>

NextManager ==
  \/ CallSaveCoverage
  \/ CallGetPreviousCoverage

SpecManager == InitManager /\ [][NextManager]_vars

\* ----------------------------------------- the reaction network (graph_helper)
\* number of edge statements of the network file
MaxEdges == 3
\* number of node statements of the network file
MaxNodes == 3

\* node names, in Python's string order; "D" occurs in no edge statement
GraphNodes == <<"A", "B", "C", "D">>
NodeSet == {GraphNodes[i] : i \in 1..Len(GraphNodes)}
Ord(n) == CHOOSE i \in 1..Len(GraphNodes) : GraphNodes[i] = n

\* an edge label: 'value [forward | backward]', or text the pattern of
\* extract_rates does not match
Unmatched == [matched |-> FALSE, forward |-> 0, backward |-> 0]
Rates(f, b) == [matched |-> TRUE, forward |-> f, backward |-> b]
EdgeLabels == { Unmatched, Rates(5, 0), Rates(1, 3), Rates(2, 2) }

\* the edge statements '"reactant" -> "product" [label="..."' a file may hold
EdgeStatements ==
  { [reactant |-> e[1], product |-> e[2], rate_info |-> l] :
      e \in { <<"A", "B">>, <<"B", "C">>, <<"A", "C">> }, l \in EdgeLabels }

RECURSIVE ListsUpTo(_, _)
ListsUpTo(S, n) ==
  IF n = 0 THEN { <<>> }
  ELSE LET shorter == ListsUpTo(S, n - 1)
       IN  shorter \cup { Append(s, x) : s \in { t \in shorter : Len(t) = n - 1 },
                                         x \in S }

\* extract_rates: (forward, backward), or (0, 0) without a match
extract_rates(rate_info) ==
  IF rate_info.matched THEN << rate_info.forward, rate_info.backward >> ELSE << 0, 0 >>

\* defaultdict(list)
EmptyGraph == [n \in NodeSet |-> <<>>]

\* mutant of extract_reactions: the reverse entry carries the same rate
RECURSIVE extract_reactions_same_sign(_)
extract_reactions_same_sign(reaction_matches) ==
  IF reaction_matches = <<>> THEN EmptyGraph
  ELSE LET n     == Len(reaction_matches)
           graph == extract_reactions_same_sign(SubSeq(reaction_matches, 1, n - 1))
           match == reaction_matches[n]
           fb    == extract_rates(match.rate_info)
           rate  == fb[1] - fb[2]
           g1    == [graph EXCEPT ![match.reactant] = Append(@, <<match.product, rate>>)]
       IN  [g1 EXCEPT ![match.product] = Append(@, <<match.reactant, rate>>)]

\* extract_reactions: the adjacency lists after the loop over the matches
RECURSIVE extract_reactions(_)
extract_reactions(reaction_matches) ==
  IF reaction_matches = <<>> THEN EmptyGraph
  ELSE LET n     == Len(reaction_matches)
           graph == extract_reactions(SubSeq(reaction_matches, 1, n - 1))
           match == reaction_matches[n]
           fb    == extract_rates(match.rate_info)
           rate  == fb[1] - fb[2]
           g1    == [graph EXCEPT ![match.reactant] = Append(@, <<match.product, rate>>)]
       IN  [g1 EXCEPT ![match.product] = Append(@, <<match.reactant, -rate>>)]

\* comparison of two lists of node names, as Python compares lists
LexLess(p, q) ==
  \E k \in 1..(Len(q)) :
    /\ k <= Len(p) + 1
    /\ \A j \in 1..(k - 1) : p[j] = q[j]
    /\ (k = Len(p) + 1 \/ Ord(p[k]) < Ord(q[k]))

\* comparison of two heap entries (cost, node, path), as Python compares tuples
EntryLess(a, b) ==
  \/ a.cost < b.cost
  \/ (a.cost = b.cost /\ Ord(a.node) < Ord(b.node))
  \/ (a.cost = b.cost /\ a.node = b.node /\ LexLess(a.path, b.path))

\* heapq.heappop: the position of a smallest entry of the queue
PopIndex(pq) ==
  CHOOSE i \in 1..Len(pq) :
    /\ \A j \in 1..Len(pq) : ~EntryLess(pq[j], pq[i])
    /\ \A j \in 1..(i - 1) : pq[j] # pq[i]

RemoveAt(s, i) == SubSeq(s, 1, i - 1) \o SubSeq(s, i + 1, Len(s))

\* next(rate for n, rate in graph[a] if n == b): the rate of the first entry
FirstRate(graph, a, b) ==
  LET hits == {i \in 1..Len(graph[a]) : graph[a][i][1] = b}
      i    == CHOOSE k \in hits : \A j \in hits : k <= j
  IN  graph[a][i][2]

\* mutant of RdsOf: of several smallest edges the last one is taken
RdsOf_last_of_ties(graph, path) ==
  LET key(k) == Abs(FirstRate(graph, path[k], path[k + 1]))
      k == CHOOSE i \in 1..(Len(path) - 1) :
             /\ \A j \in 1..(Len(path) - 1) : key(i) <= key(j)
             /\ \A j \in (i + 1)..(Len(path) - 1) : key(j) > key(i)
  IN  << path[k], path[k + 1] >>

\* line 69: min(zip(path[:-1], path[1:]), key=abs(rate)); min returns the
\* first of the smallest
RdsOf(graph, path) ==
  LET key(k) == Abs(FirstRate(graph, path[k], path[k + 1]))
      k == CHOOSE i \in 1..(Len(path) - 1) :
             /\ \A j \in 1..(Len(path) - 1) : key(i) <= key(j)
             /\ \A j \in 1..(i - 1) : key(j) > key(i)
  IN  << path[k], path[k + 1] >>

\* a node statement '"species"[label="species\nvalue"];' or '"species";':
\* the three groups of one match of species_pattern, '' for a group that
\* took no part
NoLabel == [has |-> FALSE, value |-> 0]
Label(v) == [has |-> TRUE, value |-> v]
\* a species name and whether it contains the site marker '*'
Species == { [name |-> "R", marked |-> FALSE], [name |-> "X", marked |-> TRUE],
             [name |-> "P", marked |-> FALSE] }
NodeStatements ==
  { [species |-> s, label |-> l] : s \in Species, l \in {NoLabel, Label(0), Label(5)} }

\* parse_dot_file: float(match[2]) is evaluated for every match, before the
\* site marker is looked at, and float('') raises ValueError
parse_dot_file(species_matches) ==
  IF \E i \in 1..Len(species_matches) : ~species_matches[i].label.has
  THEN [raised |-> TRUE, intermediates |-> <<>>, reactants |-> <<>>, products |-> <<>>]
  ELSE LET names(test(_)) ==
             LET hits == SelectSeq(species_matches, test)
             IN  [i \in 1..Len(hits) |-> hits[i].species]
           is_intermediate(m) == m.species.marked
           is_reactant(m) == ~m.species.marked /\ m.label.value # 0
           is_product(m) == ~m.species.marked /\ m.label.value = 0
       IN  [raised |-> FALSE, intermediates |-> names(is_intermediate),
            reactants |-> names(is_reactant), products |-> names(is_product)]

\* the (start, end) pairs find_rds is called with
RdsPairs == { <<"A", "C">>, <<"C", "A">>, <<"A", "D">>, <<"D", "A">>, <<"A", "A">> }

\* the file before anything has been read from it
GraphFile(species_matches, reaction_matches) ==
  [fn |-> "file", species_matches |-> species_matches,
   reaction_matches |-> reaction_matches,
   classes |-> None, graph |-> EmptyGraph, start |-> "A", end |-> "A",
   pq |-> <<>>, visited |-> {}, iterations |-> 0,
   path |-> None, rds |-> None, report |-> <<>>]

\* A network file is on disk: its node statements (at most nodes of them) and
\* its edge statements (at most edges of them).
InitGraphUpTo(nodes, edges) ==
  /\ config = [pH_list |-> <<>>, V_list |-> <<>>, enable_sweep_mode |-> FALSE,
               use_coverage_propagation |-> FALSE, enforce_site_balance |-> TRUE,
               executable_path |-> FALSE]
  /\ coverage_data = EmptyDict
  /\ pc = "idle"
  /\ phIdx = 1
  /\ idx = 1
  /\ V_steps = <<>>
  /\ previous_coverage = None
  /\ data = None
  /\ cwd = "base"
  /\ handed = None
  /\ seedBranch = "none"
  /\ outcome = "none"
  /\ lastOutcome = "none"
  /\ covAtStart = EmptyDict
  /\ visited = <<>>
  /\ exported = 0
  /\ final_cov = None
  /\ \/ \E ns \in ListsUpTo(NodeStatements, nodes) : probe = GraphFile(ns, <<>>)
     \/ \E es \in ListsUpTo(EdgeStatements, edges) : probe = GraphFile(<<>>, es)

InitGraph == InitGraphUpTo(MaxNodes, MaxEdges)

\* a call parse_dot_file(file_path)
CallParseDotFile ==
  /\ probe.fn = "file"
  /\ probe' = [probe EXCEPT !.fn = "parse_dot_file",
                            !.classes = Some(parse_dot_file(probe.species_matches))]
  /\ UNCHANGED sweepVars

\* a call extract_reactions(file_path)
CallExtractReactions ==
  /\ probe.fn = "file"
  /\ probe' = [probe EXCEPT !.fn = "extract_reactions",
                            !.graph = extract_reactions(probe.reaction_matches)]
  /\ UNCHANGED sweepVars

\* find_rds(graph, start, end) is entered, lines 58-59
CallFindRds ==
  /\ probe.fn = "extract_reactions"
  /\ \E pair \in RdsPairs :
       probe' = [probe EXCEPT !.fn = "find_rds", !.start = pair[1], !.end = pair[2],
                              !.pq = << [cost |-> 0, node |-> pair[1], path |-> <<>>] >>,
                              !.visited = {}]
  /\ UNCHANGED sweepVars

\* mutant of Pushed: a path of two nodes or more is pushed without its first node
RECURSIVE Pushed_drops_first_node(_, _, _, _)
Pushed_drops_first_node(entries, seen, cost, path) ==
  IF entries = <<>> THEN <<>>
  ELSE LET neighbor == entries[1][1]
           rate     == entries[1][2]
           rest     == Pushed_drops_first_node(Tail(entries), seen, cost, path)
       IN  IF neighbor \notin seen
           THEN << [cost |-> cost - rate, node |-> neighbor, path |-> IF Len(path) > 1 THEN Tail(path) ELSE path] >> \o rest
           ELSE rest

\* the entries pushed for the neighbours of node that are not visited
RECURSIVE Pushed(_, _, _, _)
Pushed(entries, seen, cost, path) ==
  IF entries = <<>> THEN <<>>
  ELSE LET neighbor == entries[1][1]
           rate     == entries[1][2]
           rest     == Pushed(Tail(entries), seen, cost, path)
       IN  IF neighbor \notin seen
           THEN << [cost |-> cost - rate, node |-> neighbor, path |-> path] >> \o rest
           ELSE rest

\* one iteration of the while loop, lines 61-74
FindRdsLoop ==
  /\ probe.fn = "find_rds"
  /\ probe.pq # <<>>
  /\ LET i     == PopIndex(probe.pq)
         entry == probe.pq[i]
         rest  == RemoveAt(probe.pq, i)
         path  == Append(entry.path, entry.node)
         seen  == probe.visited \cup {entry.node}
     IN  IF entry.node \in probe.visited
         THEN probe' = [probe EXCEPT !.pq = rest, !.iterations = @ + 1]
         ELSE IF entry.node = probe.end
         THEN IF Len(path) < 2
              THEN probe' = [probe EXCEPT !.fn = "find_rds raised", !.pq = rest,
                                          !.visited = seen, !.iterations = @ + 1]
              ELSE probe' = [probe EXCEPT !.fn = "find_rds returned", !.pq = rest,
                                          !.visited = seen, !.iterations = @ + 1,
                                          !.path = Some(path),
                                          !.rds = Some(RdsOf(probe.graph, path))]
         ELSE probe' = [probe EXCEPT !.pq = rest \o Pushed(probe.graph[entry.node],
                                                           seen, entry.cost, path),
                                     !.visited = seen, !.iterations = @ + 1]
  /\ UNCHANGED sweepVars

\* mutant of FindRdsNoPath: the start node is returned as the path
FindRdsNoPath_start_returned ==
  /\ probe.fn = "find_rds"
  /\ probe.pq = <<>>
  /\ probe' = [probe EXCEPT !.fn = "find_rds returned",
                            !.path = Some(<<probe.start>>), !.rds = None]
  /\ UNCHANGED sweepVars

\* line 76: the queue is empty, return None, None
FindRdsNoPath ==
  /\ probe.fn = "find_rds"
  /\ probe.pq = <<>>
  /\ probe' = [probe EXCEPT !.fn = "find_rds returned", !.path = None, !.rds = None]
  /\ UNCHANGED sweepVars

\* Homepage.py lines 190-203: what is written for one (reactant, product)
RdsReport(graph, path, rds) ==
  IF ~IsNone(path) /\ Get(path) # <<>>
  THEN << [msg |-> "Path", edge |-> None] >> \o
       ( IF ~IsNone(rds)
         THEN << [msg |-> "RDS", edge |-> rds] >> \o
              ( IF FirstRate(graph, Get(rds)[1], Get(rds)[2]) = 0
                THEN << [msg |-> "No RDS (rate = 0)", edge |-> None] >>
                ELSE << [msg |-> "Rate", edge |-> None] >> )
         ELSE << [msg |-> "No RDS (all rates are zero)", edge |-> None] >> )
  ELSE << [msg |-> "No path", edge |-> None] >>

\* the caller reports the result of find_rds
ReportRds ==
  /\ probe.fn = "find_rds returned"
  /\ probe' = [probe EXCEPT !.fn = "reported",
                            !.report = RdsReport(probe.graph, probe.path, probe.rds)]
  /\ UNCHANGED sweepVars

NextGraph ==
  \/ CallParseDotFile
  \/ CallExtractReactions
  \/ CallFindRds
  \/ FindRdsLoop
  \/ FindRdsNoPath
  \/ ReportRds

SpecGraph == InitGraph /\ [][NextGraph]_vars

\* number of statements of the network file under fairness
MaxFairEdges == 2

\* the loop of find_rds is not left waiting: a call that has been entered
\* runs on by itself
SpecGraphFair ==
  /\ InitGraphUpTo(MaxFairEdges, MaxFairEdges)
  /\ [][NextGraph]_vars
  /\ WF_vars(FindRdsLoop)
  /\ WF_vars(FindRdsNoPath)

\* ------------------------------------------------ the reaction line
\* A line is a list of tokens; the padding of a field is not kept, a field
\* padded from the empty string is the token of the empty text.
Tok(s) == [text |-> s, num |-> 0]
NumTok(n) == [text |-> "#", num |-> n]
PLUS == Tok("+")
ARROW == Tok("=>")
SEMI == Tok(";")

\* the names a populated slot may hold, and the barriers of a reaction
SlotNames == {"{X*}", "{Y}"}
Barriers == {0, 1, 3}
PRE_EXP == 13

\* slots 1 to 3 filled in order: the first n hold names, the others ''
SlotFillings ==
  UNION { { [i \in 1..3 |-> IF i <= n THEN f[i] ELSE ""] : f \in [1..n -> SlotNames] }
          : n \in 1..3 }

\* InputFileGenerator._format_reaction_line: '' is the only falsy slot
_format_reaction_line(r1, r2, r3, p1, p2, p3, pre_exp, ea, eb) ==
  LET head == << Tok("AR"), SEMI >>
      tail == << SEMI, NumTok(pre_exp), SEMI, NumTok(pre_exp), SEMI, NumTok(ea),
                 SEMI, NumTok(eb) >>
  IN  IF r3 # ""
      THEN IF p3 # ""
           THEN head \o << Tok(r1), PLUS, Tok(r2), PLUS, Tok(r3), ARROW,
                           Tok(p1), PLUS, Tok(p2), PLUS, Tok(p3) >> \o tail
           ELSE head \o << Tok(r1), PLUS, Tok(r2), PLUS, Tok(r3), ARROW,
                           Tok(p1), PLUS, Tok(p2) >> \o tail
      ELSE IF r2 # ""
      THEN IF p3 # ""
           THEN head \o << Tok(r1), PLUS, Tok(r2), ARROW,
                           Tok(p1), PLUS, Tok(p2), PLUS, Tok(p3) >> \o tail
           ELSE IF p2 # ""
           THEN head \o << Tok(r1), PLUS, Tok(r2), ARROW, Tok(p1), PLUS, Tok(p2) >> \o tail
           ELSE head \o << Tok(r1), PLUS, Tok(r2), ARROW, Tok(p1), Tok("") >> \o tail
      ELSE IF p2 # ""
           THEN head \o << Tok(r1), Tok(""), ARROW, Tok(p1), PLUS, Tok(p2) >> \o tail
           ELSE head \o << Tok(r1), Tok(""), ARROW, Tok(p1), Tok("") >> \o tail

\* str.split(sep) on a list of tokens: the pieces between the separators
RECURSIVE SplitAt(_, _)
SplitAt(tokens, sep) ==
  IF \A i \in 1..Len(tokens) : tokens[i] # sep THEN << tokens >>
  ELSE LET k == CHOOSE i \in 1..Len(tokens) :
                  tokens[i] = sep /\ \A j \in 1..(i - 1) : tokens[j] # sep
       IN  << SubSeq(tokens, 1, k - 1) >> \o SplitAt(SubSeq(tokens, k + 1, Len(tokens)), sep)

\* str.strip() of a piece: its text without the padding
Stripped(piece) ==
  LET texts == SelectSeq(piece, LAMBDA t : t.text # "")
  IN  IF texts = <<>> THEN "" ELSE texts[1].text

\* the line read back: split at ';', the reaction at '=>', each side at '+'
ReadLine(line) ==
  LET parts == SplitAt(line, SEMI)
      sides == SplitAt(parts[2], ARROW)
      terms(side) == LET pieces == SplitAt(side, PLUS)
                     IN  [i \in 1..Len(pieces) |-> Stripped(pieces[i])]
  IN  [reactants |-> terms(sides[1]), products |-> terms(sides[2]),
       ea |-> parts[5][1].num, eb |-> parts[6][1].num]

\* the populated slots, in slot order
Populated(slots) == SelectSeq(slots, LAMBDA s : s # "")

\* A reaction is given: its six slots and its barriers.
InitLine ==
  /\ config = [pH_list |-> <<>>, V_list |-> <<>>, enable_sweep_mode |-> FALSE,
               use_coverage_propagation |-> FALSE, enforce_site_balance |-> TRUE,
               executable_path |-> FALSE]
  /\ coverage_data = EmptyDict
  /\ pc = "idle"
  /\ phIdx = 1
  /\ idx = 1
  /\ V_steps = <<>>
  /\ previous_coverage = None
  /\ data = None
  /\ cwd = "base"
  /\ handed = None
  /\ seedBranch = "none"
  /\ outcome = "none"
  /\ lastOutcome = "none"
  /\ covAtStart = EmptyDict
  /\ visited = <<>>
  /\ exported = 0
  /\ final_cov = None
  /\ \E r \in SlotFillings, p \in SlotFillings, ea \in Barriers, eb \in Barriers :
       probe = [fn |-> "reaction", r |-> r, p |-> p, ea |-> ea, eb |-> eb, line |-> <<>>]

\* _write_reactions_section, lines 150-155: the line of one reaction
CallFormatReactionLine ==
  /\ probe.fn = "reaction"
  /\ probe' = [probe EXCEPT !.fn = "_format_reaction_line",
                            !.line = _format_reaction_line(probe.r[1], probe.r[2], probe.r[3],
                                                           probe.p[1], probe.p[2], probe.p[3],
                                                           PRE_EXP, probe.ea, probe.eb)]
  /\ UNCHANGED sweepVars

NextLine == CallFormatReactionLine

SpecLine == InitLine /\ [][NextLine]_vars

\* -------------------------------------------------- the barriers
\* number of rows of the Reactions sheet
MaxRxns == 2

\* G_f and G_b of a row, and DelG_rxn, in tenths of an eV
BarrierValues == {-2, 0, 3}
DelGValues == {-1, 0, 2}

\* lines 132-179: the body of the loop for one reaction, delE None or a value
AssignBarriers(ea_val, eb_val, delE) ==
  LET assigned ==
        IF ea_val = 0 /\ eb_val = 0
        THEN IF ~IsNone(delE)
             THEN IF Get(delE) > 0 THEN [Ea |-> Get(delE), Eb |-> 0]
                                   ELSE [Ea |-> 0, Eb |-> -Get(delE)]
             ELSE [Ea |-> ea_val, Eb |-> eb_val]
        ELSE IF ea_val < 0
        THEN IF ~IsNone(delE) THEN [Ea |-> 0, Eb |-> -Get(delE)]
                              ELSE [Ea |-> 0, Eb |-> eb_val]
        ELSE IF eb_val < 0
        THEN IF ~IsNone(delE) THEN [Ea |-> Get(delE), Eb |-> 0]
                              ELSE [Ea |-> ea_val, Eb |-> 0]
        ELSE [Ea |-> ea_val, Eb |-> eb_val]
  IN  [Ea |-> Max0(assigned.Ea), Eb |-> Max0(assigned.Eb)]

\* ExcelDataProcessor._assign_barriers_with_safety on numeric lists: every
\* DelG_rxn is a number, so delE_index goes with the loop index until the
\* list is used up.  The loop runs over the indexes of Ea (line 131):
\* Eb_final[i] of line 134 raises IndexError when Eb is the shorter list, and
\* the entries of Eb beyond the length of Ea are returned as copied.
_assign_barriers_with_safety(Ea, Eb, delE_list) ==
  IF Len(Eb) < Len(Ea)
  THEN [raised |-> TRUE, Ea_final |-> <<>>, Eb_final |-> <<>>]
  ELSE LET final == [i \in 1..Len(Ea) |->
                       AssignBarriers(Ea[i], Eb[i],
                                      IF i <= Len(delE_list) THEN Some(delE_list[i]) ELSE None)]
       IN  [raised |-> FALSE,
            Ea_final |-> [i \in 1..Len(Ea) |-> final[i].Ea],
            Eb_final |-> [i \in 1..Len(Eb) |-> IF i <= Len(Ea) THEN final[i].Eb ELSE Eb[i]]]

\* The columns G_f, G_b and DelG_rxn have been read (lines 207-209):
\* read_column_data leaves out the blank cells of a column (line 106), so the
\* three lists need not have one length.
InitBarriers ==
  /\ config = [pH_list |-> <<>>, V_list |-> <<>>, enable_sweep_mode |-> FALSE,
               use_coverage_propagation |-> FALSE, enforce_site_balance |-> TRUE,
               executable_path |-> FALSE]
  /\ coverage_data = EmptyDict
  /\ pc = "idle"
  /\ phIdx = 1
  /\ idx = 1
  /\ V_steps = <<>>
  /\ previous_coverage = None
  /\ data = None
  /\ cwd = "base"
  /\ handed = None
  /\ seedBranch = "none"
  /\ outcome = "none"
  /\ lastOutcome = "none"
  /\ covAtStart = EmptyDict
  /\ visited = <<>>
  /\ exported = 0
  /\ final_cov = None
  /\ \E Ea \in ListsUpTo(BarrierValues, MaxRxns), Eb \in ListsUpTo(BarrierValues, MaxRxns),
        delE_list \in ListsUpTo(DelGValues, MaxRxns) :
       probe = [fn |-> "columns", Ea |-> Ea, Eb |-> Eb, delE_list |-> delE_list,
                raised |-> FALSE, Ea_final |-> <<>>, Eb_final |-> <<>>]

\* extract_all_data, line 212
CallAssignBarriers ==
  /\ probe.fn = "columns"
  /\ LET r == _assign_barriers_with_safety(probe.Ea, probe.Eb, probe.delE_list)
     IN  probe' = [probe EXCEPT !.fn = "_assign_barriers_with_safety",
                                !.raised = r.raised,
                                !.Ea_final = r.Ea_final, !.Eb_final = r.Eb_final]
  /\ UNCHANGED sweepVars

NextBarriers == CallAssignBarriers

SpecBarriers == InitBarriers /\ [][NextBarriers]_vars

\* -------------------------------------------------- the adsorbates
\* number of cells of the column Reactions
MaxReactions == 2

\* a species name and whether it contains '*'
Sp(name, marked) == [name |-> name, marked |-> marked]
A_ads == Sp("A*", TRUE)
B_ads == Sp("B*", TRUE)
C_gas == Sp("C", FALSE)
Site  == Sp("*", TRUE)

\* the terms of one side of a reaction, separated by '+'
Sides ==
  { << A_ads >>, << C_gas >>, << A_ads, Site >>, << C_gas, B_ads >>,
    << A_ads, C_gas, B_ads >>, << Site, A_ads, A_ads >>, << C_gas, Site, C_gas >> }

\* a cell of the column Reactions: 'reactants → products', or text that
\* does not split into two parts at the arrow
Unparsable == [parsable |-> FALSE, reactants |-> <<>>, products |-> <<>>]
ReactionCells ==
  { [parsable |-> TRUE, reactants |-> r, products |-> p] : r \in Sides, p \in Sides }
    \cup { Unparsable }

\* a slot: '{name}', or the empty string
Wrapped(sp) == [braces |-> TRUE, species |-> sp]
EmptySlot == [braces |-> FALSE, species |-> Sp("", FALSE)]

\* lines 266-275: the k-th slot of one side
SlotOf(side, k) == IF Len(side) >= k THEN Wrapped(side[k]) ELSE EmptySlot

SlotKeys == {"Reactant1", "Reactant2", "Reactant3", "Product1", "Product2", "Product3"}

\* ExcelDataProcessor._parse_reactions: six lists of slots, one entry for
\* each reaction; a reaction that cannot be parsed fills every list with ''
_parse_reactions(reactions) ==
  LET slot(rxn, side, k) == IF rxn.parsable THEN SlotOf(side, k) ELSE EmptySlot
      column(k, products) ==
        [i \in 1..Len(reactions) |->
           slot(reactions[i],
                IF products THEN reactions[i].products ELSE reactions[i].reactants, k)]
  IN  [key \in SlotKeys |->
         CASE key = "Reactant1" -> column(1, FALSE)
           [] key = "Reactant2" -> column(2, FALSE)
           [] key = "Reactant3" -> column(3, FALSE)
           [] key = "Product1"  -> column(1, TRUE)
           [] key = "Product2"  -> column(2, TRUE)
           [] key = "Product3"  -> column(3, TRUE)]

\* line 297: the keys whose lists are looked at
CheckedKeys == {"Reactant1", "Reactant2", "Product1", "Product2"}

\* item.strip("{}").strip()
StripBraces(item) == item.species.name

\* ExcelDataProcessor._extract_adsorbates: the set of line 294 after the loops
_extract_adsorbates(parsed_reactions) ==
  LET adsorbates_of(items) ==
        { StripBraces(items[i]) :
            i \in { j \in 1..Len(items) :
                      /\ items[j].species.marked
                      /\ items[j] # EmptySlot
                      /\ StripBraces(items[j]) # "*" } }
  IN  UNION { adsorbates_of(parsed_reactions[key]) : key \in CheckedKeys }

\* list(adsorbates): the sequences that hold each element of the set once
ListsOfSet(S) ==
  { s \in ListsUpTo(S, Cardinality(S)) :
      Len(s) = Cardinality(S) /\ \A x \in S : \E k \in 1..Len(s) : s[k] = x }

\* The column Reactions has been read (line 206).
InitAdsorbates ==
  /\ config = [pH_list |-> <<>>, V_list |-> <<>>, enable_sweep_mode |-> FALSE,
               use_coverage_propagation |-> FALSE, enforce_site_balance |-> TRUE,
               executable_path |-> FALSE]
  /\ coverage_data = EmptyDict
  /\ pc = "idle"
  /\ phIdx = 1
  /\ idx = 1
  /\ V_steps = <<>>
  /\ previous_coverage = None
  /\ data = None
  /\ cwd = "base"
  /\ handed = None
  /\ seedBranch = "none"
  /\ outcome = "none"
  /\ lastOutcome = "none"
  /\ covAtStart = EmptyDict
  /\ visited = <<>>
  /\ exported = 0
  /\ final_cov = None
  /\ \E reactions \in ListsUpTo(ReactionCells, MaxReactions) :
       probe = [fn |-> "reactions", reactions |-> reactions,
                parsed_reactions |-> [key \in SlotKeys |-> <<>>], adsorbates |-> <<>>]

\* extract_all_data, line 232
CallParseReactions ==
  /\ probe.fn = "reactions"
  /\ probe' = [probe EXCEPT !.fn = "_parse_reactions",
                            !.parsed_reactions = _parse_reactions(probe.reactions)]
  /\ UNCHANGED sweepVars

\* extract_all_data, line 235: the list is in the iteration order of the set
CallExtractAdsorbates ==
  /\ probe.fn = "_parse_reactions"
  /\ \E adsorbates \in ListsOfSet(_extract_adsorbates(probe.parsed_reactions)) :
       probe' = [probe EXCEPT !.fn = "_extract_adsorbates", !.adsorbates = adsorbates]
  /\ UNCHANGED sweepVars

NextAdsorbates ==
  \/ CallParseReactions
  \/ CallExtractAdsorbates

SpecAdsorbates == InitAdsorbates /\ [][NextAdsorbates]_vars

\* ------------------------------------------------------------ properties
\* the V values of the cells entered so far under pH p, in order
VisitedVs(p) ==
  LET cells == SelectSeq(visited, LAMBDA c : c[1] = p)
  IN  [i \in 1..Len(cells) |-> cells[i][2]]

\* the V loop of the i-th pH has run to its end
PHComplete(i) ==
  \/ phIdx > i
  \/ phIdx = i /\ pc = "V_loop" /\ idx > Len(V_steps)

AscendingAbs(s) == \A i, j \in 1..Len(s) : i < j => Abs(s[i]) <= Abs(s[j])
IsPrefix(s, t) == Len(s) <= Len(t) /\ SubSeq(t, 1, Len(s)) = s
Count(s, x) == Cardinality({i \in 1..Len(s) : s[i] = x})
SameValues(s, t) ==
  /\ Len(s) = Len(t)
  /\ \A i \in 1..Len(s) : Count(s, s[i]) = Count(t, s[i])

\* list l read in the order f
Reordered(l, f) == [k \in 1..Len(l) |-> l[f[k]]]
\* the values of absolute value m, in their order in s
WithAbs(s, m) == SelectSeq(s, LAMBDA x : Abs(x) = m)
\* no +v together with -v
NoOppositePair(l) == \A i, j \in 1..Len(l) : l[i] = -l[j] => l[i] = l[j]

\* a sanitized coverage: 0, or between EPS and MAX_COVERAGE
Sanitized(x) == x = 0 \/ (x >= EPS /\ x <= MAX_COVERAGE)

\* C1: a solver failure does not raise out of the sweep, leaves
\* coverage_data exactly as it was when the cell started, and control goes
\* on to the next V step of the same pH.
C1_SolverFailureIsolated ==
  [][ /\ (pc = "solve" /\ outcome' = "solver_failed") =>
           (pc' = "finally" /\ coverage_data' = covAtStart)
      /\ (pc = "finally" /\ outcome = "solver_failed") =>
           /\ coverage_data' = covAtStart
           /\ pc' = "V_loop"
           /\ phIdx' = phIdx
           /\ idx' = idx + 1
      /\ (pc = "V_loop" /\ lastOutcome = "solver_failed" /\ idx <= Len(V_steps)
            /\ pc' = "copy") =>
           /\ visited' = Append(visited, <<config.pH_list[phIdx], V_steps[idx]>>)
           /\ coverage_data' = covAtStart
    ]_vars

\* the V step after a failed solver run has been entered, with the stored
\* snapshots of the earlier cells still there
C1_Witness ==
  /\ pc = "copy"
  /\ lastOutcome = "solver_failed"
  /\ DOMAIN coverage_data # {}
  /\ coverage_data = covAtStart

\* C2: the V step that follows a cell whose solver run failed is not seeded
\* from a snapshot (it takes the "no previous coverage" branch).
C2_SeedAfterFailureIsNotPropagated ==
  (lastOutcome = "solver_failed" /\ seedBranch # "none") => seedBranch # "propagated"

\* C3 as stated: in every configuration the V values of each pH are processed
\* in ascending absolute value.
C3_AscendingInEveryConfiguration ==
  \A i \in 1..Len(config.pH_list) : AscendingAbs(VisitedVs(config.pH_list[i]))

\* C3 amended: with sweep mode enabled the V values of each pH are processed
\* in ascending absolute value ([-0.4, 0.6, 0.0, -0.2] as 0.0, -0.2, -0.4,
\* 0.6); with sweep mode disabled they are processed in the order of V_list.
\* Either way a pH that ran to its end processed exactly the values of V_list.
C3_AscendingInSweepMode ==
  \A i \in 1..Len(config.pH_list) :
    LET vs == VisitedVs(config.pH_list[i])
    IN  /\ config.enable_sweep_mode => AscendingAbs(vs)
        /\ ~config.enable_sweep_mode => IsPrefix(vs, config.V_list)
        /\ PHComplete(i) => SameValues(vs, config.V_list)
        /\ (PHComplete(i) /\ config.enable_sweep_mode
              /\ config.V_list = <<-4, 6, 0, -2>>) => vs = <<0, -2, -4, 6>>

\* the list of the example has been swept to its end in sweep mode
C3_Witness ==
  /\ config.enable_sweep_mode
  /\ config.V_list = <<-4, 6, 0, -2>>
  /\ PHComplete(1)
  /\ Len(visited) = 4

\* C4 as stated, in the mode that orders the list at all (sweep mode): any
\* reordering of V_list, +v and -v included, is processed in the same sequence.
C4_OrderIgnoresInputOrder ==
  \A i \in 1..Len(config.pH_list) :
    (PHComplete(i) /\ config.enable_sweep_mode) =>
      \A f \in Permutations(1..Len(config.V_list)) :
        V_steps_of([config EXCEPT !.V_list = Reordered(config.V_list, f)])
          = VisitedVs(config.pH_list[i])

\* C4 amended: with sweep mode enabled, any reordering of a V_list that does
\* not hold both +v and -v is processed in the same sequence, and values of
\* equal absolute value are processed in their input order.
C4_OrderInSweepMode ==
  \A i \in 1..Len(config.pH_list) :
    (PHComplete(i) /\ config.enable_sweep_mode) =>
      LET vs == VisitedVs(config.pH_list[i])
      IN  /\ NoOppositePair(config.V_list) =>
                \A f \in Permutations(1..Len(config.V_list)) :
                  V_steps_of([config EXCEPT !.V_list = Reordered(config.V_list, f)]) = vs
          /\ \A k \in 1..Len(config.V_list) :
                WithAbs(vs, Abs(config.V_list[k]))
                  = WithAbs(config.V_list, Abs(config.V_list[k]))

\* a list with +0.2 and -0.2 has been swept to its end in sweep mode
C4_Witness ==
  /\ config.enable_sweep_mode
  /\ config.V_list = <<-2, 2, 0>>
  /\ PHComplete(1)
  /\ VisitedVs(config.pH_list[1]) = <<0, -2, 2>>

\* C5: at V == 0 the generator is handed all-zero activities and a free-site
\* coverage of 1.0.
C5_ZeroPotentialResets ==
  (~IsNone(handed) /\ Get(handed).V = 0) =>
    /\ \A i \in 1..Len(Get(handed).activity) : Get(handed).activity[i] = 0
    /\ Len(Get(handed).activity) = Len(Adsorbates)
    /\ Get(handed).free_site_coverage = Scale

\* a V == 0 cell is generated while a snapshot is carried and propagation is on
C5_Witness ==
  /\ ~IsNone(handed)
  /\ Get(handed).V = 0
  /\ config.use_coverage_propagation
  /\ ~IsNone(previous_coverage)
  /\ \E k \in DOMAIN Get(previous_coverage) :
       k # FreeSite /\ Get(previous_coverage)[k] # 0

\* C6: _sanitize_value(x) lies in [0, MAX_COVERAGE]; it is 0 for x < EPS,
\* MAX_COVERAGE for x > MAX_COVERAGE and x otherwise.
C6_SanitizeValue ==
  probe.fn = "_sanitize_value" =>
    LET x == probe.xs[1]
    IN  /\ probe.out >= 0 /\ probe.out <= MAX_COVERAGE
        /\ x < EPS => probe.out = 0
        /\ x > MAX_COVERAGE => probe.out = MAX_COVERAGE
        /\ (x >= EPS /\ x <= MAX_COVERAGE) => probe.out = x

\* a negative value has been sanitized
C6_Witness == probe.fn = "_sanitize_value" /\ probe.xs[1] < 0 /\ probe.out = 0

\* C7 as stated: the returned adsorbate values and free-site value always sum
\* to 1 within tolerance.
C7_AlwaysSumsToOne ==
  probe.fn = "_renormalize_free_site" =>
    Abs(Sum(probe.outs) + probe.out - Scale) < EPS

\* C7 amended: the returned values sum to 1 within tolerance whenever the
\* sanitized adsorbate values sum to at most 1; when they sum to more than 1
\* they are returned as they are, the free site is 0 and the total exceeds 1.
C7_SumsToOneUnlessOverUnity ==
  probe.fn = "_renormalize_free_site" =>
    /\ Len(probe.outs) = Len(probe.xs)
    /\ \A i \in 1..Len(probe.xs) : probe.outs[i] = _sanitize_value(probe.xs[i])
    /\ Sum(probe.outs) <= Scale => Abs(Sum(probe.outs) + probe.out - Scale) < EPS
    /\ Sum(probe.outs) > Scale =>
         (probe.out = 0 /\ Sum(probe.outs) + probe.out > Scale)

\* the sanitized values of the list sum to more than 1
C7_Witness ==
  /\ probe.fn = "_renormalize_free_site"
  /\ Sum(probe.outs) > Scale
  /\ probe.out = 0

C9_WorkingDirectoryRestored ==
  /\ pc \in {"pH_loop", "V_loop", "returned", "raised"} => cwd = "base"
  /\ cwd # "base" => (pc \in {"copy", "seed", "generate", "solve", "extract", "finally"}
                       /\ cwd = <<config.pH_list[phIdx], V_steps[idx]>>)

\* a failed cell has been left and the sweep is at the start of the next cell
C9_Witness ==
  /\ pc = "V_loop"
  /\ idx > 1
  /\ lastOutcome \in {"solver_failed", "prepare_failed"}
  /\ cwd = "base"

\* C10: no error of a single cell (creating or entering its directory
\* included) propagates out of run_parameter_sweep.
C10_NoCellErrorEscapes == pc # "raised"

\* the solver of the current cell has returned and the cell is being left
SolverSucceeded == pc = "finally" /\ outcome = "succeeded"

\* the snapshot of the current cell is stored and is the carried one
StoredAndCarried ==
  /\ <<pH, V>> \in DOMAIN coverage_data
  /\ previous_coverage = Some(coverage_data[<<pH, V>>])

\* C11 as stated: after every cell whose solver succeeds the manager holds a
\* snapshot for that (pH, V) and that snapshot is the carried one.
C11_EverySuccessStoredAndCarried == SolverSucceeded => StoredAndCarried

\* C11: after a cell whose solver succeeds, in sweep mode and with a
\* non-empty mapping read from the coverage file, the manager holds the
\* snapshot for that (pH, V) and it is the carried one; with sweep mode off
\* or without such a mapping nothing is stored and the carried snapshot is
\* left as it was; the carried snapshot changes nowhere else within a pH.
C11_StoredAndCarriedWhenExtracted ==
  [][ /\ (pc = "extract" /\ ~IsNone(final_cov') /\ DOMAIN Get(final_cov') # {})
           => /\ pc' = "finally" /\ outcome' = "succeeded"
              /\ config.enable_sweep_mode
              /\ <<pH, V>> \in DOMAIN coverage_data'
              /\ previous_coverage' = Some(coverage_data'[<<pH, V>>])
      /\ (pc' = "finally" /\ outcome' = "succeeded"
            /\ (pc = "solve" \/ IsNone(final_cov') \/ DOMAIN Get(final_cov') = {}))
           => /\ coverage_data' = coverage_data
              /\ previous_coverage' = previous_coverage
      /\ pc = "solve" /\ pc' = "finally" /\ outcome' = "succeeded"
           => ~config.enable_sweep_mode
      /\ pc \notin {"extract", "pH_loop"} => previous_coverage' = previous_coverage
    ]_vars

\* the next V step of the same pH is being seeded and the carried snapshot
\* is the one stored for the step before it, whose solver succeeded
C11_Witness ==
  /\ pc = "seed"
  /\ idx > 1
  /\ lastOutcome = "succeeded"
  /\ config.enable_sweep_mode
  /\ <<pH, V_steps[idx - 1]>> \in DOMAIN coverage_data
  /\ previous_coverage = Some(coverage_data[<<pH, V_steps[idx - 1]>>])

\* the sweep has ended, by returning or by an error that left it
SweepEnded == pc \in {"returned", "raised"}

\* every cell of the grid has been entered
AllCellsProcessed == Len(visited) = Len(config.pH_list) * Len(config.V_list)

\* C12: in every run the trajectory export is performed exactly once, after
\* the last cell, when sweep mode is enabled (also when cells failed), and
\* never when sweep mode is disabled.
C12_ExportedExactlyOnceAtEnd ==
  /\ exported <= 1
  /\ ~config.enable_sweep_mode => exported = 0
  /\ exported = 1 => (pc = "returned" /\ AllCellsProcessed)
  /\ (SweepEnded /\ config.enable_sweep_mode) => exported = 1

\* a cell with V != 0 is being seeded with propagation on and a snapshot carried
SeedsFromSnapshot ==
  /\ pc = "seed"
  /\ V # 0
  /\ config.use_coverage_propagation
  /\ ~IsNone(previous_coverage)

HandedWithoutSnapshot ==
  /\ ~IsNone(handed)
  /\ Get(handed).V # 0
  /\ seedBranch = "noprev"

\* C14: when V != 0 and propagation is disabled or no previous snapshot
\* exists, every adsorbate activity handed to the input-file generator is 0
\* and the free-site coverage is 1.0, whatever record the extractor returned.
C14_SeededEmptyWithoutSnapshot ==
  HandedWithoutSnapshot =>
    /\ \A i \in 1..Len(Adsorbates) : Get(handed).activity[i] = 0
    /\ Get(handed).free_site_coverage = Scale

\* the positions of l that come before the first v when l is read by
\* ascending |V|, values of one |V| in the order of l
BeforeInAbsOrder(l, v) ==
  LET first == CHOOSE i \in 1..Len(l) : l[i] = v /\ \A j \in 1..(i - 1) : l[j] # v
  IN  {i \in 1..Len(l) : \/ Abs(l[i]) < Abs(v)
                           \/ (Abs(l[i]) = Abs(v) /\ i < first)}

\* the last of a non-empty set of positions in that order
LastInAbsOrder(l, before) ==
  CHOOSE i \in before :
    \A k \in before : \/ Abs(l[k]) < Abs(l[i])
                      \/ (Abs(l[k]) = Abs(l[i]) /\ k <= i)

\* C15: get_previous_coverage(pH, V_current, V_list) returns the stored
\* snapshot of the value that immediately precedes V_current in V_list
\* sorted by ascending |V|; it returns None when V_current is not in V_list,
\* when it is first in that order, or when nothing is stored for that value.
C15_PreviousCoverage ==
  probe.fn = "get_previous_coverage" =>
    LET l == probe.V_list
        v == probe.V_current
    IN  IF \A i \in 1..Len(l) : l[i] # v
        THEN probe.result = None
        ELSE IF BeforeInAbsOrder(l, v) = {}
        THEN probe.result = None
        ELSE LET prev_V == l[LastInAbsOrder(l, BeforeInAbsOrder(l, v))]
             IN  IF <<probe.pH, prev_V>> \in DOMAIN coverage_data
                 THEN probe.result = Some(coverage_data[<<probe.pH, prev_V>>])
                 ELSE probe.result = None

\* a call on an unordered list returned the snapshot of the preceding value,
\* which is not the value before V_current in the list as given
C15_Witness ==
  /\ probe.fn = "get_previous_coverage"
  /\ probe.V_list = <<-2, 0, 2>>
  /\ probe.V_current = 2
  /\ <<probe.pH, 0>> \in DOMAIN coverage_data
  /\ <<probe.pH, -2>> \in DOMAIN coverage_data
  /\ coverage_data[<<probe.pH, 0>>] # coverage_data[<<probe.pH, -2>>]
  /\ probe.result = Some(coverage_data[<<probe.pH, -2>>])

\* find_rds has returned a path
PathReturned ==
  /\ probe.fn \in {"find_rds returned", "reported"}
  /\ ~IsNone(probe.path)

\* the absolute net rate of the k-th edge of path p
AbsRateOfEdge(p, k) == Abs(FirstRate(probe.graph, p[k], p[k + 1]))

\* C16: when find_rds returns a path, the returned rate-determining step is
\* an edge of that path of minimal absolute net rate among the path's edges,
\* and of several such edges the first one in path order.
C16_RdsIsFirstMinimalEdge ==
  PathReturned =>
    LET p == Get(probe.path)
    IN  /\ ~IsNone(probe.rds)
        /\ \E k \in 1..(Len(p) - 1) :
             /\ Get(probe.rds) = << p[k], p[k + 1] >>
             /\ \A j \in 1..(Len(p) - 1) : AbsRateOfEdge(p, k) <= AbsRateOfEdge(p, j)
             /\ \A j \in 1..(k - 1) : AbsRateOfEdge(p, j) # AbsRateOfEdge(p, k)

\* edges A->B rate 5 and B->C rate 5, no edge A->C: path [A, B, C] and
\* bottleneck (A, B)
C16_Witness ==
  /\ probe.fn = "find_rds returned"
  /\ probe.reaction_matches =
       << [reactant |-> "A", product |-> "B", rate_info |-> Rates(5, 0)],
          [reactant |-> "B", product |-> "C", rate_info |-> Rates(5, 0)] >>
  /\ probe.start = "A" /\ probe.end = "C"
  /\ probe.path = Some(<< "A", "B", "C" >>)
  /\ probe.rds = Some(<< "A", "B" >>)

\* every edge of the returned path has net rate exactly 0
AllRatesZero ==
  /\ PathReturned
  /\ \A k \in 1..(Len(Get(probe.path)) - 1) : AbsRateOfEdge(Get(probe.path), k) = 0

\* C17: when every edge of the path found has net rate exactly 0, "no RDS"
\* is reported and no edge is returned or reported as rate-determining step.
C17_NoRdsWhenAllRatesZero ==
  (probe.fn = "reported" /\ AllRatesZero) =>
    /\ IsNone(probe.rds)
    /\ \A i \in 1..Len(probe.report) : probe.report[i].msg # "RDS"
    /\ \E i \in 1..Len(probe.report) :
         probe.report[i].msg \in {"No RDS (rate = 0)", "No RDS (all rates are zero)"}

\* the nodes that can be reached from the nodes of S along entries of graph
RECURSIVE ReachableFrom(_, _)
ReachableFrom(graph, S) ==
  LET more == S \cup {n \in NodeSet : \E m \in S : \E i \in 1..Len(graph[m]) :
                                         graph[m][i][1] = n}
  IN  IF more = S THEN S ELSE ReachableFrom(graph, more)

\* find_rds is running on a graph that has no path from start to end
NoPathCall ==
  /\ probe.fn = "find_rds"
  /\ probe.end \notin ReachableFrom(probe.graph, {probe.start})

\* find_rds has returned None, None
NoneReturned ==
  /\ probe.fn \in {"find_rds returned", "reported"}
  /\ IsNone(probe.path)
  /\ IsNone(probe.rds)

\* C18: when the graph has no path from start to end, also when start or
\* end is absent from the graph, find_rds terminates and returns None, None.
C18_NoPathReturnsNone == NoPathCall ~> NoneReturned

\* the end node is absent from the graph, the nodes that can be reached from
\* start have been visited, and None, None has been returned
C18_Witness ==
  /\ probe.fn = "find_rds returned"
  /\ probe.start = "A" /\ probe.end = "D"
  /\ probe.visited = {"A", "B", "C"}
  /\ IsNone(probe.path) /\ IsNone(probe.rds)

\* the net rate of an edge statement
NetRate(match) ==
  IF match.rate_info.matched
  THEN match.rate_info.forward - match.rate_info.backward
  ELSE 0

\* how many entries (b, r) the adjacency list of a holds
EntryCount(a, b, r) ==
  Cardinality({i \in 1..Len(probe.graph[a]) : probe.graph[a][i] = << b, r >>})

\* how many edge statements a -> b of net rate r the file holds
EdgeCount(a, b, r) ==
  Cardinality({i \in 1..Len(probe.reaction_matches) :
                 /\ probe.reaction_matches[i].reactant = a
                 /\ probe.reaction_matches[i].product = b
                 /\ NetRate(probe.reaction_matches[i]) = r})

NetRates == {NetRate(e) : e \in EdgeStatements} \cup {-NetRate(e) : e \in EdgeStatements}

\* C19: in the graph built by extract_reactions every entry (B, r) of A has
\* its mirror (A, -r) in the list of B, r being forward - backward of a
\* parsed edge, and each parsed edge contributes exactly those two entries.
C19_EveryEdgeHasItsMirror ==
  probe.fn \notin {"file", "parse_dot_file"} =>
    /\ \A a \in NodeSet : \A i \in 1..Len(probe.graph[a]) :
         LET b == probe.graph[a][i][1]
             r == probe.graph[a][i][2]
         IN  \E j \in 1..Len(probe.graph[b]) : probe.graph[b][j] = << a, -r >>
    /\ \A a, b \in NodeSet : \A r \in NetRates :
         EntryCount(a, b, r) = EdgeCount(a, b, r) + EdgeCount(b, a, -r)
    /\ \A a \in NodeSet : \A i \in 1..Len(probe.graph[a]) :
         probe.graph[a][i][2] \in NetRates
    /\ Sum([k \in 1..Len(GraphNodes) |-> Len(probe.graph[GraphNodes[k]])])
         = 2 * Len(probe.reaction_matches)

\* a graph built from two edges: A -> B of forward 1, backward 3 gives
\* (B, -2) under A and (A, 2) under B
C19_Witness ==
  /\ probe.fn = "extract_reactions"
  /\ Len(probe.reaction_matches) = 2
  /\ probe.graph["A"] = << << "B", -2 >> >>
  /\ probe.graph["B"] = << << "A", 2 >>, << "C", 5 >> >>
  /\ probe.graph["C"] = << << "B", -5 >> >>

\* the class the rule gives a labelled node statement
ClassOf(m) ==
  IF m.species.marked THEN "intermediate"
  ELSE IF m.label.value # 0 THEN "reactant" ELSE "product"

\* the species of the labelled node statements of class c, in file order
LabelledOfClass(c) ==
  LET hits == SelectSeq(probe.species_matches,
                        LAMBDA m : m.label.has /\ ClassOf(m) = c)
  IN  [i \in 1..Len(hits) |-> hits[i].species]

\* C20: parse_dot_file puts every node that has a value label into exactly
\* one class: intermediate if its name contains '*', otherwise reactant if
\* its value is nonzero, otherwise product; no node occurrence is in two of
\* the returned lists.
C20_LabelledNodesClassified ==
  (/\ probe.fn = "parse_dot_file"
   /\ \E i \in 1..Len(probe.species_matches) : probe.species_matches[i].label.has) =>
    LET r == Get(probe.classes)
    IN  /\ ~r.raised
        /\ r.intermediates = LabelledOfClass("intermediate")
        /\ r.reactants = LabelledOfClass("reactant")
        /\ r.products = LabelledOfClass("product")
        /\ Len(r.intermediates) + Len(r.reactants) + Len(r.products)
             = Len(SelectSeq(probe.species_matches, LAMBDA m : m.label.has))

\* the same for the files of which every node statement carries a value label
ClassifiedWhenAllLabelled ==
  (\A i \in 1..Len(probe.species_matches) : probe.species_matches[i].label.has)
    => C20_LabelledNodesClassified

\* the species of the node statements without value label that satisfy test
UnlabelledSpecies(test(_)) ==
  {probe.species_matches[i].species :
     i \in {j \in 1..Len(probe.species_matches) :
              /\ ~probe.species_matches[j].label.has
              /\ test(probe.species_matches[j].species)}}

SeqRange(s) == {s[i] : i \in 1..Len(s)}

\* C21: parse_dot_file tolerates a node without value label: it completes
\* without error, puts such a node into the intermediates if its name
\* contains '*', and otherwise into neither the reactants nor the products.
C21_UnlabelledNodeTolerated ==
  (/\ probe.fn = "parse_dot_file"
   /\ \E i \in 1..Len(probe.species_matches) : ~probe.species_matches[i].label.has) =>
    LET r == Get(probe.classes)
        marked(s) == s.marked
        plain(s) == ~s.marked
    IN  /\ ~r.raised
        /\ UnlabelledSpecies(marked) \subseteq SeqRange(r.intermediates)
        /\ \A s \in UnlabelledSpecies(plain) :
             \/ s \notin SeqRange(r.reactants) \cup SeqRange(r.products)
             \/ \E i \in 1..Len(probe.species_matches) :
                  /\ probe.species_matches[i].species = s
                  /\ probe.species_matches[i].label.has

\* C22: for every reaction with 1 to 3 populated reactant slots and 1 to 3
\* populated product slots, the line of _format_reaction_line, read back,
\* yields exactly the populated reactants and the populated products in
\* slot order, none missing and no empty term, with the given Ea and Eb.
C22_LineHoldsEverySlot ==
  probe.fn = "_format_reaction_line" =>
    LET read == ReadLine(probe.line)
    IN  /\ read.reactants = Populated(probe.r)
        /\ read.products = Populated(probe.p)
        /\ read.ea = probe.ea
        /\ read.eb = probe.eb

\* the same for the reactions that are neither three reactants with one
\* product nor one reactant with three products
LineHoldsSlotsOfOtherShapes ==
  (/\ probe.fn = "_format_reaction_line"
   /\ ~(Len(Populated(probe.r)) = 3 /\ Len(Populated(probe.p)) = 1)
   /\ ~(Len(Populated(probe.r)) = 1 /\ Len(Populated(probe.p)) = 3))
    => C22_LineHoldsEverySlot

\* nothing was read from the coverage file of the cell
NothingExtracted(fc) == IsNone(fc) \/ DOMAIN Get(fc) = {}

\* C23: problems of the coverage file (missing, fewer than two lines,
\* header/row length mismatch, unparsable fields) are not fatal to a cell:
\* _extract_final_coverage gives None or a mapping, the cell ends as
\* succeeded, nothing is stored when nothing was extracted, and the sweep
\* goes on to the next cell.
C23_ParsingProblemsNotFatal ==
  [][ /\ pc = "extract" =>
           /\ pc' = "finally" /\ outcome' = "succeeded"
           /\ \/ IsNone(final_cov')
              \/ DOMAIN Get(final_cov') \subseteq {"A", "B", FreeSite}
           /\ NothingExtracted(final_cov') =>
                /\ coverage_data' = coverage_data
                /\ previous_coverage' = previous_coverage
      /\ (pc = "finally" /\ outcome = "succeeded") =>
           /\ pc' = "V_loop" /\ idx' = idx + 1 /\ lastOutcome' = "succeeded"
           /\ coverage_data' = coverage_data
    ]_vars

\* the cell after one whose coverage file gave nothing is being processed,
\* and nothing was stored for that cell
C23_Witness ==
  /\ pc = "copy"
  /\ idx > 1
  /\ config.enable_sweep_mode
  /\ lastOutcome = "succeeded"
  /\ <<pH, V_steps[idx - 1]>> \notin DOMAIN coverage_data

\* the cells of the grid in the order of the loops: every V step of a pH
\* before any step of the next pH
RECURSIVE CellsInOrder(_)
CellsInOrder(n) ==
  IF n = 0 THEN <<>>
  ELSE LET steps == V_steps_of(config)
       IN  CellsInOrder(n - 1) \o
           [k \in 1..Len(steps) |-> << config.pH_list[n], steps[k] >>]

\* C24: run_parameter_sweep ends having attempted each (pH, V) cell of the
\* grid exactly once, one cell at a time, all V steps of a pH before any
\* step of the next pH, whichever cells fail.
C24_EveryCellAttemptedOnce ==
  /\ SweepEnded => visited = CellsInOrder(Len(config.pH_list))
  /\ IsPrefix(visited, CellsInOrder(Len(config.pH_list)))
  /\ pc \in {"copy", "seed", "generate", "solve", "extract", "finally"}
       => (visited # <<>> /\ visited[Len(visited)] = << pH, V >>)

\* the same for the runs that return
EveryCellAttemptedWhenReturned ==
  /\ pc = "returned" => visited = CellsInOrder(Len(config.pH_list))
  /\ IsPrefix(visited, CellsInOrder(Len(config.pH_list)))
  /\ pc \in {"copy", "seed", "generate", "solve", "extract", "finally"}
       => (visited # <<>> /\ visited[Len(visited)] = << pH, V >>)

\* a reaction whose extracted Ea and Eb are both >= 0 and not both zero
\* keeps exactly its extracted Ea and Eb
KeepsExtracted ==
  \A i \in 1..Len(probe.Ea) :
    (probe.Ea[i] >= 0 /\ probe.Eb[i] >= 0 /\ ~(probe.Ea[i] = 0 /\ probe.Eb[i] = 0))
      => (probe.Ea_final[i] = probe.Ea[i] /\ probe.Eb_final[i] = probe.Eb[i])

\* C25: for every input of numeric Ea, Eb and DelG_rxn lists, every value of
\* both lists returned by _assign_barriers_with_safety is >= 0, and a
\* reaction whose extracted Ea and Eb are both >= 0 and not both zero keeps
\* exactly its extracted Ea and Eb.
C25_BarriersNonNegative ==
  (probe.fn = "_assign_barriers_with_safety" /\ ~probe.raised) =>
    /\ \A i \in 1..Len(probe.Ea_final) : probe.Ea_final[i] >= 0
    /\ \A i \in 1..Len(probe.Eb_final) : probe.Eb_final[i] >= 0
    /\ KeepsExtracted

\* the same for columns G_f and G_b of one length
BarriersNonNegativeOfPairedColumns ==
  (probe.fn = "_assign_barriers_with_safety" /\ Len(probe.Ea) = Len(probe.Eb)) =>
    /\ ~probe.raised
    /\ \A i \in 1..Len(probe.Ea_final) : probe.Ea_final[i] >= 0
    /\ \A i \in 1..Len(probe.Eb_final) : probe.Eb_final[i] >= 0
    /\ KeepsExtracted

\* the carried snapshot is the one stored for an earlier V step of this pH
CarriedFromThisPH ==
  \E j \in 1..(idx - 1) :
    /\ <<pH, V_steps[j]>> \in DOMAIN coverage_data
    /\ coverage_data[<<pH, V_steps[j]>>] = Get(previous_coverage)

\* C26: each pH is processed independently: the seed of any V step of a pH
\* is never taken from a snapshot produced under a different pH; the carried
\* previous snapshot is absent at the first V step of every pH.
C26_SeedFromSamePH ==
  pc \in {"V_loop", "copy", "seed"} =>
    /\ idx = 1 => IsNone(previous_coverage)
    /\ ~IsNone(previous_coverage) => CarriedFromThisPH

\* the first V step of the second pH is being seeded with propagation on
\* and nothing carried, after the first pH has stored a snapshot
C26_Witness ==
  /\ pc = "seed"
  /\ phIdx = 2
  /\ idx = 1
  /\ V # 0
  /\ config.use_coverage_propagation
  /\ IsNone(previous_coverage)
  /\ \E k \in DOMAIN coverage_data : k[1] = config.pH_list[1]

\* a later V step of the second pH is being seeded from a snapshot carried
\* within that pH
SeededWithinSecondPH ==
  /\ pc = "seed"
  /\ phIdx = 2
  /\ idx > 1
  /\ config.use_coverage_propagation
  /\ ~IsNone(previous_coverage)

\* graph[a] holds an entry for b
IsEdge(graph, a, b) == \E k \in 1..Len(graph[a]) : graph[a][k][1] = b

\* p goes from a to b along entries of graph and visits no node twice
IsSimplePath(graph, p, a, b) ==
  /\ Len(p) >= 1
  /\ p[1] = a
  /\ p[Len(p)] = b
  /\ \A j, k \in 1..Len(p) : p[j] = p[k] => j = k
  /\ \A k \in 1..(Len(p) - 1) : IsEdge(graph, p[k], p[k + 1])

\* C27: whenever find_rds returns a path, the path starts at start, ends at
\* end, visits no node twice, and every consecutive pair of nodes on it is an
\* edge of the graph.
C27_ReturnedPathIsSimplePath ==
  PathReturned => IsSimplePath(probe.graph, Get(probe.path), probe.start, probe.end)

\* a path of three nodes has been returned against the direction of the
\* edge statements, from C to A
C27_Witness ==
  /\ probe.fn = "find_rds returned"
  /\ probe.start = "C" /\ probe.end = "A"
  /\ probe.path = Some(<< "C", "B", "A" >>)

\* the largest rate of an entry of graph[a] for b
BestRate(graph, a, b) ==
  LET ks == { k \in 1..Len(graph[a]) : graph[a][k][1] = b }
      k0 == CHOOSE k \in ks : \A j \in ks : graph[a][j][2] <= graph[a][k][2]
  IN  graph[a][k0][2]

\* the sum of the net rates along the node path p
RECURSIVE SumOfRates(_, _)
SumOfRates(graph, p) ==
  IF Len(p) < 2 THEN 0
  ELSE BestRate(graph, p[1], p[2]) + SumOfRates(graph, Tail(p))

\* the node sequences without repetition
NodePaths ==
  { p \in ListsUpTo(NodeSet, Len(GraphNodes)) : \A j, k \in 1..Len(p) : p[j] = p[k] => j = k }

\* C28: whenever find_rds returns a path from start to end, no other simple
\* path from start to end in the graph has a strictly larger sum of net rates
\* (a strictly smaller accumulated cost = negated sum of rates).
C28_ReturnedPathHasLargestRateSum ==
  PathReturned =>
    \A q \in NodePaths :
      IsSimplePath(probe.graph, q, probe.start, probe.end)
        => SumOfRates(probe.graph, q) <= SumOfRates(probe.graph, Get(probe.path))

\* C29: for every graph and every pair (start, end), including
\* start == end, find_rds returns a result without raising an exception.
C29_FindRdsNeverRaises == probe.fn # "find_rds raised"

\* the same for start # end
NeverRaisesBetweenTwoNodes ==
  probe.fn = "find_rds raised" => probe.start = probe.end

\* the site-marked species other than the bare free site in the slots 1 to n
\* of the reactions that were parsed
MarkedSpeciesOfSlots(n) ==
  { side[k].name :
      <<side, k>> \in
        { sk \in ( { probe.reactions[i].reactants : i \in 1..Len(probe.reactions) }
                   \cup { probe.reactions[i].products : i \in 1..Len(probe.reactions) } )
                 \X (1..n) :
            sk[2] <= Len(sk[1]) /\ sk[1][sk[2]].marked /\ sk[1][sk[2]] # Site } }

\* the list holds exactly the elements of S, once each
ListsExactly(list, S) ==
  /\ SeqRange(list) = S
  /\ \A j, k \in 1..Len(list) : list[j] = list[k] => j = k

\* C30: the adsorbate list returned by _extract_adsorbates contains every
\* site-marked species (name containing '*', other than the bare free site
\* '*') that occurs in any reactant or product slot, slots 1 to 3, of any
\* parsed reaction, and contains nothing else and no duplicates.
C30_AdsorbatesOfEverySlot ==
  probe.fn = "_extract_adsorbates" => ListsExactly(probe.adsorbates, MarkedSpeciesOfSlots(3))

\* the same for the slots 1 and 2
AdsorbatesOfSlotsOneAndTwo ==
  probe.fn = "_extract_adsorbates" => ListsExactly(probe.adsorbates, MarkedSpeciesOfSlots(2))

====
